---- MODULE Spec2Model ----
(***************************************************************************)
(* Session store of the chatbot backend (app/services/session_manager.py)  *)
(* over a shared Redis instance.  Every Redis command is one atomic step;  *)
(* a SessionManager method is a sequence of such steps run by a worker,    *)
(* so the steps of different workers interleave.                           *)
(***************************************************************************)
EXTENDS Integers, Sequences, FiniteSets, TLC

VARIABLES
    sessions,   \* Redis keys session:<id>        : id  -> [data, ttl]
    devIndex,   \* Redis keys device_sessions:<d> : dev -> [members, ttl]
    usrIndex,   \* Redis keys user_sessions:<u>   : usr -> [members, ttl]
    now,        \* wall clock (datetime.utcnow()), in ticks
    workers,    \* request-handling workers: position and locals of the running call
    nextMsg,    \* history: identity given to the next message built by add_message
    issued,     \* history: session ids uuid4 has produced so far
    log,        \* history: per session id, the message ids the store holds or has
                \*          appended since the record was created, in store order
    observe,    \* history switch: keep, for each worker, when its calls began and
                \*          returned, the call before, and the store each call left
    owned,      \* history (kept when observe): per session id, the owners (user ids,
                \*          device ids) the stored states of its record have listed
    chat,       \* the handler of POST /chat/message: position and locals of its turn
    counters,   \* Redis keys ratelimit:<identity>:<minute> : key -> [count, ttl]
    clock,      \* wall clock of the rate limiter, in seconds
    callers,    \* workers inside check_rate_limit: position and locals
    rateArgs,   \* the max_requests and window_seconds the callers pass
    rateLog     \* history: the calls of check_rate_limit, in the order of their INCR

limiter == <<counters, clock, callers, rateArgs, rateLog>>

vars == <<sessions, devIndex, usrIndex, now, workers, nextMsg, issued, log, observe,
          owned, chat, limiter>>

----------------------------------------------------------------------------
(* Bounds of the model *)
MaxTicks == 2
MaxCalls == 2
TickSeconds == 900
MaxRateCalls == 4
MaxRateTicks == 4
RateStep == 30
MaxTurns == 6

(* Program constants *)
SESSION_TTL == 1800
MaxMessages == 50

----------------------------------------------------------------------------
(* Values *)
None == "None"
EmptyStr == ""
Workers == {"w1", "w2", "w3"}
SessionIds == {"s1", "s2", "s3"}
UserIds == {"u1", "u2"}
Racers == {"w1", "w2"}
NoExpiry == 0 - 1       \* a key written by SADD and not yet given a TTL by EXPIRE

\* Python truthiness of an Optional[str]: None and "" are falsy
Truthy(x) == x # None /\ x # EmptyStr

Min(a, b) == IF a < b THEN a ELSE b

Put(f, k, v) == [x \in DOMAIN f \cup {k} |-> IF x = k THEN v ELSE f[x]]
Drop(f, K) == [x \in DOMAIN f \ K |-> f[x]]

\* the last n elements of a sequence
LastN(q, n) == IF Len(q) <= n THEN q ELSE SubSeq(q, Len(q) - n + 1, Len(q))

SeqRange(q) == {q[i] : i \in 1..Len(q)}
MsgIds(msgs) == [i \in 1..Len(msgs) |-> msgs[i].id]

----------------------------------------------------------------------------
(* Redis commands *)

Live(s) == s \in DOMAIN sessions
Data(s) == sessions[s].data

\* GET key, then json.loads: <<>> stands for None
RedisGet(s) == IF Live(s) THEN <<Data(s)>> ELSE <<>>

\* SETEX with the TTL of an existing key kept (SET ... KEEPTTL)
RedisSetexKeepTtl(s, ttl, data) ==
    Put(sessions, s, [data |-> data, ttl |-> IF Live(s) THEN sessions[s].ttl ELSE ttl])

\* SETEX key ttl value
RedisSetex(s, ttl, data) == Put(sessions, s, [data |-> data, ttl |-> ttl])

\* SADD key member: creates the set, without a TTL, when the key is absent
RedisSadd(index, k, member) ==
    IF k \in DOMAIN index
    THEN Put(index, k, [index[k] EXCEPT !.members = @ \cup {member}])
    ELSE Put(index, k, [members |-> {member}, ttl |-> NoExpiry])

\* EXPIRE key ttl: no effect on an absent key
RedisExpire(index, k, ttl) ==
    IF k \in DOMAIN index THEN Put(index, k, [index[k] EXCEPT !.ttl = ttl]) ELSE index

\* SMEMBERS key: the empty set for an absent key
RedisSmembers(index, k) == IF k \in DOMAIN index THEN index[k].members ELSE {}

\* DEL key
RedisDelete(s) == Drop(sessions, {s})

\* the keys of a table whose TTL runs out when dt seconds pass
Expiring(tbl, dt) == {k \in DOMAIN tbl : tbl[k].ttl # NoExpiry /\ tbl[k].ttl <= dt}
Aged(tbl, dt) ==
    [k \in DOMAIN tbl \ Expiring(tbl, dt) |->
        IF tbl[k].ttl = NoExpiry THEN tbl[k] ELSE [tbl[k] EXCEPT !.ttl = @ - dt]]

\* the owners a record lists
Owners(data) == {data.user_id, data.device_id} \ {None}

\* history: the owners each stored record lists, when the run starts
FirstOwned ==
    [s \in SessionIds |->
        IF observe /\ s \in DOMAIN sessions THEN Owners(sessions[s].data) ELSE {}]

\* history: the owners listed so far, after a step that leaves the session records ss
Owned(ss) ==
    IF observe
    THEN [s \in SessionIds |->
            owned[s] \cup (IF s \in DOMAIN ss THEN Owners(ss[s].data) ELSE {})]
    ELSE owned

\* the chat handler between two requests: turn and turns count the requests begun
\* (all, and per identity); saved is the id of the user message the turn appended;
\* proto tells that every request so far was a guest turn of device d1 that
\* supplied the session id the turn before ended with
IdleChat ==
    [pc |-> "idle", user |-> None, device |-> None, given |-> None, sid |-> None,
     status |-> "none", key |-> <<>>, count |-> 0, saved |-> 0, turn |-> 0,
     turns |-> [i \in {"d1", "u1"} |-> 0], proto |-> TRUE]

----------------------------------------------------------------------------
(* Workers *)

NoSnap == [sess |-> <<>>, dev |-> <<>>, usr |-> <<>>]
NoPrev == [op |-> "none", sid |-> None, uid |-> None, did |-> None, info |-> <<>>,
           status |-> "none", t0 |-> 0, doneAt |-> 0, snap |-> NoSnap]

IdleWorker ==
    [pc |-> "idle", op |-> "none", sid |-> None, uid |-> None, did |-> None,
     msg |-> <<>>, ts |-> 0, sess |-> <<>>, ids |-> {}, list |-> <<>>, idx |-> 0,
     status |-> "none", ret |-> <<>>, count |-> 0, calls |-> 0, keep |-> 0,
     t0 |-> 0, doneAt |-> 0, snap |-> NoSnap, prev |-> NoPrev, pre |-> <<>>,
     info |-> <<>>]

Idle(w) == workers[w].pc = "idle" /\ workers[w].calls < MaxCalls

\* what the store holds, without the TTLs and timestamps, for session s
Members(index) == [k \in DOMAIN index |-> index[k].members]
Snapshot(ss, di, ui, s) ==
    [sess |-> IF s \in DOMAIN ss THEN <<ss[s].data>> ELSE <<>>,
     dev |-> Members(di), usr |-> Members(ui)]

\* a worker entering a call: the call just returned becomes the previous one; pre
\* is the session records a cleanup_device_sessions or upgrade_to_authenticated
\* call found when it was called
Enter(w, op, s, u, d) ==
    [IdleWorker EXCEPT
        !.op = op, !.sid = s, !.uid = u, !.did = d,
        !.calls = workers[w].calls + 1,
        !.t0 = IF observe THEN now ELSE 0,
        !.pre = IF observe /\ op \in {"cleanup", "upgrade"} THEN sessions ELSE <<>>,
        !.prev = IF observe
                 THEN [op |-> workers[w].op, sid |-> workers[w].sid,
                       uid |-> workers[w].uid, did |-> workers[w].did,
                       info |-> workers[w].info, status |-> workers[w].status, t0 |-> workers[w].t0,
                       doneAt |-> workers[w].doneAt, snap |-> workers[w].snap]
                 ELSE NoPrev]

\* a call returning (status "ok") or raising, in the store (ss, di, ui) it leaves
Return(wr, status, ret, count, ss, di, ui) ==
    [wr EXCEPT
        !.pc = "idle", !.status = status, !.ret = ret, !.count = count,
        !.msg = <<>>, !.sess = <<>>, !.ids = {}, !.idx = 0, !.ts = 0,
        !.list = IF observe THEN @ ELSE <<>>,
        !.keep = IF observe THEN @ ELSE 0,
        !.doneAt = IF observe THEN now ELSE 0,
        !.snap = IF observe THEN Snapshot(ss, di, ui, wr.sid) ELSE NoSnap]

Done(w, op) == workers[w].pc = "idle" /\ workers[w].op = op

----------------------------------------------------------------------------
(* SessionManager.create *)

\* lines 51-61, with "device_id is None" for "user_id is not None"
NewSessionFlagByDevice(sid, uid, did, t) ==
    [session_id |-> sid, user_id |-> uid, device_id |-> did,
     is_authenticated |-> (did = None),
     created_at |-> t, last_activity |-> t, upgraded_at |-> <<>>,
     messages |-> <<>>, context |-> "{}", guest_info |-> <<>>]

\* lines 51-61: the record of a new session
NewSession(sid, uid, did, t) ==
    [session_id |-> sid,
     user_id |-> uid,
     device_id |-> did,
     is_authenticated |-> (uid # None),
     created_at |-> t,
     last_activity |-> t,
     upgraded_at |-> <<>>,
     messages |-> <<>>,
     context |-> "{}",
     guest_info |-> <<>>]

\* line 45 with "is None" tests for the truthiness tests
IdentityMissingIsNone(uid, did) == uid = None /\ did = None

\* line 45: not user_id and not device_id
IdentityMissing(uid, did) == ~Truthy(uid) /\ ~Truthy(did)

\* where create goes after the step at pc
CreateNext(pc, uid, did) ==
    CASE pc = "setex" /\ Truthy(did) -> "create_sadd_dev"
      [] pc = "setex" /\ ~Truthy(did) /\ Truthy(uid) -> "create_sadd_usr"
      [] pc = "create_sadd_dev" -> "create_exp_dev"
      [] pc = "create_exp_dev" /\ Truthy(uid) -> "create_sadd_usr"
      [] pc = "create_sadd_usr" -> "create_exp_usr"
      [] OTHER -> "idle"

\* lines 45-68: the identity check, the id, the record and its SETEX.
\* given is the session_id argument; fresh is what uuid4 returns when it is called
CreateCall(w, uid, did, given, fresh) ==
    /\ Idle(w)
    /\ IF IdentityMissing(uid, did)
       THEN /\ workers' = [workers EXCEPT ![w] =
                    Return(Enter(w, "create", given, uid, did), "InvalidIdentity",
                           <<>>, 0, sessions, devIndex, usrIndex)]
            /\ UNCHANGED <<sessions, issued, log>>
       ELSE LET sid == IF Truthy(given) THEN given ELSE fresh
                data == NewSession(sid, uid, did, now)
                wr == [Enter(w, "create", sid, uid, did) EXCEPT !.sess = <<data>>]
                ss == RedisSetex(sid, SESSION_TTL, data)
            IN /\ Truthy(given) \/ fresh \notin issued
               /\ sessions' = ss
               /\ issued' = IF Truthy(given) THEN issued ELSE issued \cup {fresh}
               /\ log' = [log EXCEPT ![sid] = <<>>]
               /\ workers' = [workers EXCEPT ![w] =
                    IF CreateNext("setex", uid, did) = "idle"
                    THEN Return(wr, "ok", <<data>>, 0, ss, devIndex, usrIndex)
                    ELSE [wr EXCEPT !.pc = CreateNext("setex", uid, did)]]
    /\ UNCHANGED <<devIndex, usrIndex, now, nextMsg, observe, chat, limiter>>
    /\ owned' = Owned(sessions')

\* lines 71-77: one of SADD device, EXPIRE device, SADD user, EXPIRE user
CreateStep(w) ==
    LET wr == workers[w]
        di == CASE wr.pc = "create_sadd_dev" -> RedisSadd(devIndex, wr.did, wr.sid)
                [] wr.pc = "create_exp_dev" -> RedisExpire(devIndex, wr.did, SESSION_TTL)
                [] OTHER -> devIndex
        ui == CASE wr.pc = "create_sadd_usr" -> RedisSadd(usrIndex, wr.uid, wr.sid)
                [] wr.pc = "create_exp_usr" -> RedisExpire(usrIndex, wr.uid, SESSION_TTL)
                [] OTHER -> usrIndex
        nxt == CreateNext(wr.pc, wr.uid, wr.did)
    IN /\ wr.pc \in {"create_sadd_dev", "create_exp_dev", "create_sadd_usr", "create_exp_usr"}
       /\ devIndex' = di
       /\ usrIndex' = ui
       /\ workers' = [workers EXCEPT ![w] =
            IF nxt = "idle"
            THEN Return(wr, "ok", wr.sess, 0, sessions, di, ui)
            ELSE [wr EXCEPT !.pc = nxt]]
       /\ UNCHANGED <<sessions, now, nextMsg, issued, log, observe, chat, limiter>>
       /\ owned' = Owned(sessions')

----------------------------------------------------------------------------
(* SessionManager.get *)

\* lines 81-84 with GETEX for GET: the read gives the key a fresh TTL
GetCallTouch(w, s) ==
    /\ Idle(w)
    /\ workers' = [workers EXCEPT ![w] =
            Return(Enter(w, "get", s, None, None), "ok", RedisGet(s), 0,
                   sessions, devIndex, usrIndex)]
    /\ sessions' = RedisExpire(sessions, s, SESSION_TTL)
    /\ UNCHANGED <<devIndex, usrIndex, now, nextMsg, issued, log, observe, chat, limiter>>
    /\ owned' = Owned(sessions')

\* lines 81-84: GET and json.loads
GetCall(w, s) ==
    /\ Idle(w)
    /\ workers' = [workers EXCEPT ![w] =
            Return(Enter(w, "get", s, None, None), "ok", RedisGet(s), 0,
                   sessions, devIndex, usrIndex)]
    /\ UNCHANGED <<sessions, devIndex, usrIndex, now, nextMsg, issued, log, observe, chat, limiter>>
    /\ owned' = Owned(sessions')

----------------------------------------------------------------------------
(* SessionManager.add_message *)

\* cjson.decode followed by cjson.encode: an empty JSON array comes back as {}
CjsonValue(v) == IF v = "[]" THEN "{}" ELSE v
CjsonMessage(m) == [m EXCEPT !.products = CjsonValue(@)]
CjsonMessages(msgs) == [i \in 1..Len(msgs) |-> CjsonMessage(msgs[i])]

\* lines 179-187 with the start of the kept range one too early
TrimMessagesKeepOneMore(msgs) ==
    IF Len(msgs) > MaxMessages
    THEN SubSeq(msgs, Len(msgs) - MaxMessages, Len(msgs))
    ELSE msgs

\* lines 179-187 of the script: keep the last 50
TrimMessages(msgs) ==
    IF Len(msgs) > MaxMessages
    THEN SubSeq(msgs, Len(msgs) - (MaxMessages - 1), Len(msgs))
    ELSE msgs

\* lines 171-174 with a default record for the nil test
ScriptGetOrDefault(s) ==
    IF Live(s) THEN <<Data(s)>> ELSE <<NewSession(s, None, None, 0)>>

\* lines 171-174 of the script: GET inside the script, nil when the key is absent
ScriptGet(s) == RedisGet(s)

\* lines 176-190 with the new message inserted at the head of the list
AddMessageScriptPrepend(data, message, lastActivity) ==
    [data EXCEPT
        !.messages = TrimMessages(CjsonMessages(<<message>> \o data.messages)),
        !.last_activity = lastActivity]

\* lines 176-190 of the script: the value written back for the value read
AddMessageScript(data, message, lastActivity) ==
    [data EXCEPT
        !.messages = TrimMessages(CjsonMessages(Append(data.messages, message))),
        !.last_activity = lastActivity]

\* lines 194-207: the message and the last_activity argument are built by the worker
AddMessageCall(w, s, role, products, intent) ==
    /\ Idle(w)
    /\ workers' = [workers EXCEPT ![w] =
            [Enter(w, "add", s, None, None) EXCEPT
                !.pc = "add_eval",
                !.msg = <<[id |-> nextMsg, role |-> role, timestamp |-> now,
                           products |-> products, intent |-> intent]>>,
                !.ts = now]]
    /\ nextMsg' = nextMsg + 1
    /\ UNCHANGED <<sessions, devIndex, usrIndex, now, issued, log, observe, chat, limiter>>
    /\ owned' = Owned(sessions')

\* lines 166-192 and 201-211: the script runs in the store as one step
AddMessageEval(w) ==
    LET wr == workers[w]
    IN /\ wr.pc = "add_eval"
       /\ IF ScriptGet(wr.sid) = <<>>
          THEN /\ workers' = [workers EXCEPT ![w] =
                    Return(wr, "SessionNotFound", <<>>, 0, sessions, devIndex, usrIndex)]
               /\ UNCHANGED <<sessions, log>>
          ELSE LET ss == RedisSetex(wr.sid, SESSION_TTL,
                                    AddMessageScript(ScriptGet(wr.sid)[1], wr.msg[1], wr.ts))
               IN /\ sessions' = ss
                  /\ log' = [log EXCEPT ![wr.sid] = Append(@, wr.msg[1].id)]
                  /\ workers' = [workers EXCEPT ![w] =
                        Return(wr, "ok", <<>>, 0, ss, devIndex, usrIndex)]
       /\ UNCHANGED <<devIndex, usrIndex, now, nextMsg, issued, observe, chat, limiter>>
       /\ owned' = Owned(sessions')

----------------------------------------------------------------------------
(* SessionManager.update, upgrade_to_authenticated, set_guest_info *)

\* lines 139-141 with the flag toggled instead of set
UpgradedToggle(data, u, t) ==
    [data EXCEPT !.user_id = u, !.is_authenticated = ~@, !.upgraded_at = <<t>>]

\* lines 139-141 with the device of the guest session cleared
UpgradedDropDevice(data, u, t) ==
    [data EXCEPT !.user_id = u, !.is_authenticated = TRUE, !.upgraded_at = <<t>>,
                 !.device_id = None]

\* lines 139-141: the caller's copy with the new owner
Upgraded(data, u, t) ==
    [data EXCEPT !.user_id = u, !.is_authenticated = TRUE, !.upgraded_at = <<t>>]

\* lines 134-141 with an empty record used when GET returns None
UpgradeGetNoCheck(wr, s, u) ==
    [wr EXCEPT !.pc = "upg_sadd", !.sid = s, !.ts = now,
               !.sess = <<Upgraded(IF Live(s) THEN Data(s)
                                   ELSE NewSession(s, None, None, now), u, now)>>]

\* lines 134-141: GET, the not-found check, the local copy with the new owner
UpgradeGet(wr, s, u) ==
    IF ~Live(s)
    THEN Return([wr EXCEPT !.sid = s], "SessionNotFound", <<>>, wr.count,
                sessions, devIndex, usrIndex)
    ELSE [wr EXCEPT !.pc = "upg_sadd", !.sid = s, !.ts = now,
                    !.sess = <<Upgraded(Data(s), u, now)>>]

UpgradeCall(w, s, u) ==
    /\ Idle(w)
    /\ workers' = [workers EXCEPT ![w] = UpgradeGet(Enter(w, "upgrade", s, u, None), s, u)]
    /\ UNCHANGED <<sessions, devIndex, usrIndex, now, nextMsg, issued, log, observe, chat, limiter>>
    /\ owned' = Owned(sessions')

\* lines 144-145: SADD, then EXPIRE, on the user's index
UpgradeIndex(w) ==
    LET wr == workers[w]
        ui == IF wr.pc = "upg_sadd"
              THEN RedisSadd(usrIndex, wr.uid, wr.sid)
              ELSE RedisExpire(usrIndex, wr.uid, SESSION_TTL)
    IN /\ wr.pc \in {"upg_sadd", "upg_expire"}
       /\ usrIndex' = ui
       /\ workers' = [workers EXCEPT ![w] =
            [wr EXCEPT !.pc = IF wr.pc = "upg_sadd" THEN "upg_expire" ELSE "update",
                       !.ts = now]]
       /\ UNCHANGED <<sessions, devIndex, now, nextMsg, issued, log, observe, chat, limiter>>
       /\ owned' = Owned(sessions')

\* line 219 with the guest info assigned only while the session has none
WithGuestInfoIfNone(data, info) ==
    IF data.guest_info = <<>> THEN [data EXCEPT !.guest_info = <<info>>] ELSE data

\* line 219: session["guest_info"] = guest_info
WithGuestInfo(data, info) == [data EXCEPT !.guest_info = <<info>>]

\* lines 215-219: GET, the not-found check, the local copy with the guest info
SetGuestInfoCall(w, s, info) ==
    /\ Idle(w)
    /\ workers' = [workers EXCEPT ![w] =
            LET wr == [Enter(w, "set_guest_info", s, None, None) EXCEPT
                            !.info = IF observe THEN <<info>> ELSE <<>>]
            IN IF ~Live(s)
               THEN Return(wr, "SessionNotFound", <<>>, 0, sessions, devIndex, usrIndex)
               ELSE [wr EXCEPT !.pc = "update", !.ts = now,
                               !.sess = <<WithGuestInfo(Data(s), info)>>]]
    /\ UNCHANGED <<sessions, devIndex, usrIndex, now, nextMsg, issued, log, observe, chat, limiter>>
    /\ owned' = Owned(sessions')

\* lines 110-115: the value update() writes for the caller's copy, stamped at t
UpdateValue(data, t) == [data EXCEPT !.last_activity = t]

\* lines 158-161 with the loop ending one session early
MigrateAdvanceSkipLast(wr, ss, di, ui) ==
    IF wr.idx + 1 >= Len(wr.list)
    THEN Return(wr, "ok", <<>>, Len(wr.list), ss, di, ui)
    ELSE [wr EXCEPT !.pc = "mig_upgrade", !.idx = wr.idx + 1, !.sess = <<>>]

\* lines 158-161: where a worker is after the upgrade of list[idx] (idx = 0: before
\* the first), inside migrate_device_sessions
MigrateAdvance(wr, ss, di, ui) ==
    IF wr.idx >= Len(wr.list)
    THEN Return(wr, "ok", <<>>, Len(wr.list), ss, di, ui)
    ELSE [wr EXCEPT !.pc = "mig_upgrade", !.idx = wr.idx + 1, !.sess = <<>>]

\* lines 108-115: update() writes the caller's copy with SETEX, whatever the store
\* holds by now.  The timestamp was read at some moment since the worker's last command.
Update(w) ==
    LET wr == workers[w]
    IN /\ wr.pc = "update"
       /\ \E t \in wr.ts..now :
            LET data == UpdateValue(wr.sess[1], t)
                ss == RedisSetex(wr.sid, SESSION_TTL, data)
            IN /\ sessions' = ss
               /\ workers' = [workers EXCEPT ![w] =
                    IF wr.op = "migrate"
                    THEN MigrateAdvance(wr, ss, devIndex, usrIndex)
                    ELSE Return(wr, "ok", <<data>>, 0, ss, devIndex, usrIndex)]
       /\ UNCHANGED <<devIndex, usrIndex, now, nextMsg, issued, log, observe, chat, limiter>>
       /\ owned' = Owned(sessions')

\* line 120: EXISTS
ExtendTtlCall(w, s) ==
    /\ Idle(w)
    /\ workers' = [workers EXCEPT ![w] =
            LET wr == Enter(w, "extend_ttl", s, None, None)
            IN IF ~Live(s)
               THEN Return(wr, "ok", <<FALSE>>, 0, sessions, devIndex, usrIndex)
               ELSE [wr EXCEPT !.pc = "ext_expire"]]
    /\ UNCHANGED <<sessions, devIndex, usrIndex, now, nextMsg, issued, log, observe, chat, limiter>>
    /\ owned' = Owned(sessions')

\* lines 121-122 with the record rewritten by SETEX, as update() does
ExtendTtlExpireRewrite(w) ==
    LET wr == workers[w]
        ss == IF Live(wr.sid)
              THEN RedisSetex(wr.sid, SESSION_TTL, UpdateValue(Data(wr.sid), now))
              ELSE sessions
    IN /\ wr.pc = "ext_expire"
       /\ sessions' = ss
       /\ workers' = [workers EXCEPT ![w] =
            Return(wr, "ok", <<TRUE>>, 0, ss, devIndex, usrIndex)]
       /\ UNCHANGED <<devIndex, usrIndex, now, nextMsg, issued, log, observe, chat, limiter>>
       /\ owned' = Owned(sessions')

\* lines 121-122: EXPIRE, then return True
ExtendTtlExpire(w) ==
    LET wr == workers[w]
        ss == RedisExpire(sessions, wr.sid, SESSION_TTL)
    IN /\ wr.pc = "ext_expire"
       /\ sessions' = ss
       /\ workers' = [workers EXCEPT ![w] =
            Return(wr, "ok", <<TRUE>>, 0, ss, devIndex, usrIndex)]
       /\ UNCHANGED <<devIndex, usrIndex, now, nextMsg, issued, log, observe, chat, limiter>>
       /\ owned' = Owned(sessions')

----------------------------------------------------------------------------
(* SessionManager.get_by_device, get_latest_by_device, migrate_device_sessions, *)
(* cleanup_device_sessions                                                    *)

\* list.sort(key=last_activity) is stable: x goes behind the elements not after it
InsertByLastActivity(q, x) ==
    LET n == Cardinality({i \in 1..Len(q) : q[i].last_activity <= x.last_activity})
    IN SubSeq(q, 1, n) \o <<x>> \o SubSeq(q, n + 1, Len(q))

RECURSIVE SortByLastActivity(_)
\* line 236: sessions.sort(key=lambda s: s["last_activity"])
SortByLastActivity(q) ==
    IF q = <<>> THEN <<>>
    ELSE InsertByLastActivity(SortByLastActivity(SubSeq(q, 1, Len(q) - 1)), q[Len(q)])

\* reverse=True keeps the stability: x goes behind the elements not before it
InsertByLastActivityDesc(q, x) ==
    LET n == Cardinality({i \in 1..Len(q) : q[i].last_activity >= x.last_activity})
    IN SubSeq(q, 1, n) \o <<x>> \o SubSeq(q, n + 1, Len(q))

RECURSIVE SortByLastActivityDesc(_)
\* line 105: sessions.sort(key=lambda s: s["last_activity"], reverse=True)
SortByLastActivityDesc(q) ==
    IF q = <<>> THEN <<>>
    ELSE InsertByLastActivityDesc(SortByLastActivityDesc(SubSeq(q, 1, Len(q) - 1)),
                                  q[Len(q)])

\* lines 101-106 with the sort ascending
LatestOfAscending(list) == IF list = <<>> THEN <<>> ELSE <<SortByLastActivity(list)[1]>>

\* lines 101-106: None for no session, else the head of the descending sort
LatestOf(list) == IF list = <<>> THEN <<>> ELSE <<SortByLastActivityDesc(list)[1]>>

\* line 240 with the slice q[k:]
SliceFromKeep(q, k) == IF k >= Len(q) THEN <<>> ELSE SubSeq(q, k + 1, Len(q))

\* line 240: the Python slice q[:-k]; q[:-0] is q[:0], the empty list
SliceButLast(q, k) ==
    IF k = 0 \/ k >= Len(q) THEN <<>> ELSE SubSeq(q, 1, Len(q) - k)

\* lines 232-240: nothing to do when at most keep_latest sessions were found, else
\* the sessions to delete, oldest first
CleanupStart(wr, ss, di, ui) ==
    IF Len(wr.list) <= wr.keep
    THEN Return(wr, "ok", <<>>, 0, ss, di, ui)
    ELSE LET doomed == SliceButLast(SortByLastActivity(wr.list), wr.keep)
         IN IF doomed = <<>>
            THEN Return([wr EXCEPT !.list = doomed], "ok", <<>>, 0, ss, di, ui)
            ELSE [wr EXCEPT !.pc = "cleanup_del", !.list = doomed, !.idx = 0,
                            !.count = 0]

\* lines 96, 101-106, 158, 232: what the caller of get_by_device does with the list
AfterGetByDevice(wr, ss, di, ui) ==
    CASE wr.op = "migrate" -> MigrateAdvance(wr, ss, di, ui)
      [] wr.op = "get_latest" -> Return(wr, "ok", LatestOf(wr.list), 0, ss, di, ui)
      [] wr.op = "cleanup" -> CleanupStart(wr, ss, di, ui)
      [] OTHER -> Return(wr, "ok", wr.list, 0, ss, di, ui)

\* lines 88-91: SMEMBERS of the device's index; no GET when it has no member
GetByDeviceEnter(wr, d) ==
    LET ids == RedisSmembers(devIndex, d)
    IN IF ids = {}
       THEN AfterGetByDevice(wr, sessions, devIndex, usrIndex)
       ELSE [wr EXCEPT !.pc = "gbd_get", !.ids = ids]

\* lines 86-96: get_by_device(d)
GetByDeviceCall(w, d) ==
    /\ Idle(w)
    /\ workers' = [workers EXCEPT ![w] =
            GetByDeviceEnter(Enter(w, "get_by_device", None, None, d), d)]
    /\ UNCHANGED <<sessions, devIndex, usrIndex, now, nextMsg, issued, log, observe, chat, limiter>>
    /\ owned' = Owned(sessions')

\* lines 98-100: get_latest_by_device(d)
GetLatestByDeviceCall(w, d) ==
    /\ Idle(w)
    /\ workers' = [workers EXCEPT ![w] =
            GetByDeviceEnter(Enter(w, "get_latest", None, None, d), d)]
    /\ UNCHANGED <<sessions, devIndex, usrIndex, now, nextMsg, issued, log, observe, chat, limiter>>
    /\ owned' = Owned(sessions')

\* lines 222-230: cleanup_device_sessions(d, keep_latest)
CleanupCall(w, d, keep) ==
    /\ Idle(w)
    /\ workers' = [workers EXCEPT ![w] =
            GetByDeviceEnter([Enter(w, "cleanup", None, None, d) EXCEPT !.keep = keep], d)]
    /\ UNCHANGED <<sessions, devIndex, usrIndex, now, nextMsg, issued, log, observe, chat, limiter>>
    /\ owned' = Owned(sessions')

\* lines 240-244 with the deleted id also removed from the device's index (SREM)
CleanupDeletePrune(w) ==
    LET wr == workers[w]
        sid == wr.list[wr.idx + 1].session_id
        ss == RedisDelete(sid)
        del == [wr EXCEPT !.idx = @ + 1, !.count = @ + 1]
    IN /\ wr.pc = "cleanup_del"
       /\ sessions' = ss
       /\ devIndex' = [d \in DOMAIN devIndex |->
                          [devIndex[d] EXCEPT !.members = @ \ {sid}]]
       /\ log' = [log EXCEPT ![sid] = <<>>]
       /\ workers' = [workers EXCEPT ![w] =
            IF del.idx >= Len(del.list)
            THEN Return(del, "ok", <<>>, del.count, ss, devIndex, usrIndex)
            ELSE del]
       /\ UNCHANGED <<usrIndex, now, nextMsg, issued, observe, chat, limiter>>
       /\ owned' = Owned(sessions')

\* lines 240-244: DEL of the next session to delete, counted whatever DEL found
CleanupDelete(w) ==
    LET wr == workers[w]
        sid == wr.list[wr.idx + 1].session_id
        ss == RedisDelete(sid)
        del == [wr EXCEPT !.idx = @ + 1, !.count = @ + 1]
    IN /\ wr.pc = "cleanup_del"
       /\ sessions' = ss
       /\ log' = [log EXCEPT ![sid] = <<>>]
       /\ workers' = [workers EXCEPT ![w] =
            IF del.idx >= Len(del.list)
            THEN Return(del, "ok", <<>>, del.count, ss, devIndex, usrIndex)
            ELSE del]
       /\ UNCHANGED <<devIndex, usrIndex, now, nextMsg, issued, observe, chat, limiter>>
       /\ owned' = Owned(sessions')

\* line 88 (called at line 156): SMEMBERS of the device's index
MigrateCall(w, d, u) ==
    /\ Idle(w)
    /\ workers' = [workers EXCEPT ![w] =
            LET wr == Enter(w, "migrate", None, u, d)
                ids == RedisSmembers(devIndex, d)
            IN IF ids = {}
               THEN Return(wr, "ok", <<>>, 0, sessions, devIndex, usrIndex)
               ELSE [wr EXCEPT !.pc = "gbd_get", !.ids = ids]]
    /\ UNCHANGED <<sessions, devIndex, usrIndex, now, nextMsg, issued, log, observe, chat, limiter>>
    /\ owned' = Owned(sessions')

\* lines 91-96: GET of one member (a Python set is iterated in no particular order),
\* kept when the record is there
GetByDeviceStep(w) ==
    LET wr == workers[w]
    IN /\ wr.pc = "gbd_get"
       /\ \E s \in wr.ids :
            LET got == [wr EXCEPT !.ids = @ \ {s}, !.list = @ \o RedisGet(s)]
            IN workers' = [workers EXCEPT ![w] =
                 IF got.ids # {} THEN got
                 ELSE AfterGetByDevice(got, sessions, devIndex, usrIndex)]
       /\ UNCHANGED <<sessions, devIndex, usrIndex, now, nextMsg, issued, log, observe, chat, limiter>>
       /\ owned' = Owned(sessions')

\* lines 158-159: the next session of the list is upgraded
MigrateUpgrade(w) ==
    LET wr == workers[w]
    IN /\ wr.pc = "mig_upgrade"
       /\ workers' = [workers EXCEPT ![w] =
            UpgradeGet(wr, wr.list[wr.idx].session_id, wr.uid)]
       /\ UNCHANGED <<sessions, devIndex, usrIndex, now, nextMsg, issued, log, observe, chat, limiter>>
       /\ owned' = Owned(sessions')

----------------------------------------------------------------------------
(* DELETE /chat/session/{id} (api/chat.py, delete_session) *)

\* lines 317-323: GET and the ownership check
DeleteCall(w, s, u) ==
    /\ Idle(w)
    /\ workers' = [workers EXCEPT ![w] =
            LET wr == Enter(w, "delete", s, u, None)
            IN IF ~Live(s)
               THEN Return(wr, "SessionNotFound", <<>>, 0, sessions, devIndex, usrIndex)
               ELSE IF Data(s).user_id # u
               THEN Return(wr, "Forbidden", <<>>, 0, sessions, devIndex, usrIndex)
               ELSE [wr EXCEPT !.pc = "delete"]]
    /\ UNCHANGED <<sessions, devIndex, usrIndex, now, nextMsg, issued, log, observe, chat, limiter>>
    /\ owned' = Owned(sessions')

\* line 325: DEL
DeleteStep(w) ==
    LET wr == workers[w]
        ss == RedisDelete(wr.sid)
    IN /\ wr.pc = "delete"
       /\ sessions' = ss
       /\ log' = [log EXCEPT ![wr.sid] = <<>>]
       /\ workers' = [workers EXCEPT ![w] =
            Return(wr, "ok", <<>>, 0, ss, devIndex, usrIndex)]
       /\ UNCHANGED <<devIndex, usrIndex, now, nextMsg, issued, observe, chat, limiter>>
       /\ owned' = Owned(sessions')

----------------------------------------------------------------------------
(* RateLimiter.check_rate_limit (middleware/rate_limit.py) *)

Identities == {"d1", "u1"}

IdleCaller == [pc |-> "idle", key |-> <<>>, count |-> 0, entry |-> 0]

\* the rate limiter not in use
LimiterOff ==
    /\ counters = <<>>
    /\ clock = 0
    /\ callers = [w \in Racers |-> IdleCaller]
    /\ rateArgs = [max_requests |-> 10, window_seconds |-> 60]
    /\ rateLog = <<>>

\* line 26: datetime.utcnow().minute, the minute of the hour
Minute(t) == (t \div 60) % 60

\* line 26: f"ratelimit:{identity}:{minute}"
RateKey(identity, t) == <<identity, Minute(t)>>

\* INCR key: an absent key counts from 0 and gets no TTL.  born and setAt are
\* history: the call that created the counter, and when it was given its TTL
RedisIncr(key) ==
    IF key \in DOMAIN counters
    THEN Put(counters, key, [counters[key] EXCEPT !.count = @ + 1])
    ELSE Put(counters, key, [count |-> 1, ttl |-> NoExpiry,
                             born |-> Len(rateLog) + 1, firstAt |-> clock,
                             setAt |-> NoExpiry])

\* line 31 with the TTL set by every call
FirstInWindowAlways(count) == count >= 1

\* line 31: count == 1
FirstInWindow(count) == count = 1

\* line 35 with >= for >
ExceededAtLimit(count, max_requests) == count >= max_requests

\* line 35: count > max_requests
Exceeded(count, max_requests) == count > max_requests

\* lines 35-41: HTTPException(429) or the count
RateOutcome(count) ==
    IF Exceeded(count, rateArgs.max_requests) THEN "RateLimitExceeded" ELSE "ok"

\* lines 26-31 (and 35-41 when the count is not 1): the key, INCR, the outcome
CheckRateLimitCall(w, identity) ==
    LET key == RateKey(identity, clock)
        cs == RedisIncr(key)
        count == cs[key].count
        entry == Len(rateLog) + 1
    IN /\ callers[w].pc = "idle"
       /\ Len(rateLog) < MaxRateCalls
       /\ counters' = cs
       /\ rateLog' = Append(rateLog,
                [identity |-> identity, at |-> clock, count |-> count,
                 counter |-> cs[key].born,
                 status |-> IF FirstInWindow(count) THEN "running"
                            ELSE RateOutcome(count)])
       /\ callers' = [callers EXCEPT ![w] =
            IF FirstInWindow(count)
            THEN [pc |-> "rl_expire", key |-> key, count |-> count, entry |-> entry]
            ELSE IdleCaller]
       /\ UNCHANGED <<clock, rateArgs>>
       /\ UNCHANGED <<sessions, devIndex, usrIndex, now, workers, nextMsg, issued, log,
                      observe, owned, chat>>

\* lines 33-41: EXPIRE key window_seconds by the call that counted 1, the outcome
CheckRateLimitExpire(w) ==
    LET c == callers[w]
    IN /\ c.pc = "rl_expire"
       /\ counters' = IF c.key \in DOMAIN counters
                      THEN Put(counters, c.key,
                               [counters[c.key] EXCEPT
                                    !.ttl = rateArgs.window_seconds, !.setAt = clock])
                      ELSE counters
       /\ rateLog' = [rateLog EXCEPT ![c.entry].status = RateOutcome(c.count)]
       /\ callers' = [callers EXCEPT ![w] = IdleCaller]
       /\ UNCHANGED <<clock, rateArgs>>
       /\ UNCHANGED <<sessions, devIndex, usrIndex, now, workers, nextMsg, issued, log,
                      observe, owned, chat>>

\* RateStep seconds pass; counters whose TTL runs out disappear
RateTick ==
    /\ clock \div RateStep < MaxRateTicks
    /\ clock' = clock + RateStep
    /\ counters' = Aged(counters, RateStep)
    /\ UNCHANGED <<callers, rateArgs, rateLog>>
    /\ UNCHANGED <<sessions, devIndex, usrIndex, now, workers, nextMsg, issued, log,
                   observe, owned, chat>>

----------------------------------------------------------------------------
(* Time: TickSeconds pass; keys whose TTL runs out disappear *)

Tick ==
    /\ now < MaxTicks
    /\ now' = now + 1
    /\ sessions' = Aged(sessions, TickSeconds)
    /\ devIndex' = Aged(devIndex, TickSeconds)
    /\ usrIndex' = Aged(usrIndex, TickSeconds)
    /\ log' = [s \in SessionIds |->
                 IF s \in Expiring(sessions, TickSeconds) THEN <<>> ELSE log[s]]
    /\ UNCHANGED <<workers, nextMsg, issued, observe, chat, limiter>>
    /\ owned' = Owned(sessions')

----------------------------------------------------------------------------
(* Stores the program can be in *)

SessionOrder == <<"s1", "s2", "s3">>

\* uuid4 (line 49): an id never produced before
FreshIds == {s \in SessionIds : s \notin issued}

\* k messages of a chat: user and assistant turns, as the script stored them
ChatMessages(k) ==
    [i \in 1..k |->
        [id |-> i, role |-> IF i % 2 = 1 THEN "user" ELSE "assistant", timestamp |-> 0,
         products |-> IF i % 2 = 1 THEN "absent" ELSE "[p]",
         intent |-> IF i % 2 = 1 THEN "absent" ELSE "search"]]

\* n guest sessions of device d1 created at time 0, the first with k messages
GuestStore(n, k) ==
    /\ sessions = [s \in {SessionOrder[i] : i \in 1..n} |->
            [data |-> [NewSession(s, None, "d1", 0) EXCEPT
                            !.messages = IF s = "s1" THEN ChatMessages(k) ELSE <<>>],
             ttl |-> SESSION_TTL]]
    /\ devIndex = IF n = 0 THEN <<>>
                  ELSE [d \in {"d1"} |->
                            [members |-> {SessionOrder[i] : i \in 1..n},
                             ttl |-> SESSION_TTL]]
    /\ usrIndex = <<>>
    /\ now = 0
    /\ workers = [w \in Workers |-> IdleWorker]
    /\ nextMsg = k + 1
    /\ issued = {SessionOrder[i] : i \in 1..n}
    /\ log = [s \in SessionIds |-> IF s = "s1" /\ n > 0 THEN [i \in 1..k |-> i] ELSE <<>>]

----------------------------------------------------------------------------
(* One worker, calls in sequence *)

InitSeq ==
    /\ \E n \in 0..2 : GuestStore(n, 0)
    /\ observe = TRUE
    /\ owned = FirstOwned
    /\ chat = IdleChat
    /\ LimiterOff

NextSeq ==
    \/ \E uid \in {None, EmptyStr, "u1"}, did \in {None, EmptyStr, "d1"},
          given \in {None, "s1"}, fresh \in FreshIds :
            CreateCall("w1", uid, did, given, fresh)
    \/ CreateStep("w1")
    \/ \E s \in {"s1", "s2"} : GetCall("w1", s)
    \/ \E s \in {"s1", "s2"} : AddMessageCall("w1", s, "user", "absent", "absent")
    \/ AddMessageEval("w1")
    \/ \E s \in {"s1", "s2"}, u \in UserIds : UpgradeCall("w1", s, u)
    \/ UpgradeIndex("w1")
    \/ \E s \in {"s1", "s2"}, info \in {"g1"} : SetGuestInfoCall("w1", s, info)
    \/ Update("w1")
    \/ \E u \in UserIds : MigrateCall("w1", "d1", u)
    \/ GetByDeviceStep("w1")
    \/ MigrateUpgrade("w1")
    \/ Tick

SpecSeq == InitSeq /\ [][NextSeq]_vars

----------------------------------------------------------------------------
(* Properties of calls made in sequence (SpecSeq) *)

\* the fields of a record that are neither timestamps nor TTL-driven
Content(data) ==
    [session_id |-> data.session_id, user_id |-> data.user_id,
     device_id |-> data.device_id, is_authenticated |-> data.is_authenticated,
     created_at |-> data.created_at, messages |-> data.messages,
     context |-> data.context, guest_info |-> data.guest_info]

\* a call entered at t0 and returning at t1 took less than the session TTL
Quick(t0, t1) == (t1 - t0) * TickSeconds < SESSION_TTL

\* worker w has just returned from get(s), called right after its create returned s
CreateThenGet(w) ==
    /\ Done(w, "get")
    /\ workers[w].prev.op = "create"
    /\ workers[w].prev.status = "ok"
    /\ Quick(workers[w].prev.t0, workers[w].prev.doneAt)
    /\ workers[w].prev.sid = workers[w].sid
    /\ workers[w].prev.doneAt = workers[w].doneAt

\* C5: Create followed immediately by Get on the returned session id returns a
\* session with no messages, with the user_id and device_id that were passed, and
\* with is_authenticated true exactly when a user id was passed (user_id not None).
C5_CreateThenGet ==
    \A w \in Workers :
        CreateThenGet(w) =>
            /\ Len(workers[w].ret) = 1
            /\ workers[w].ret[1].session_id = workers[w].sid
            /\ workers[w].ret[1].messages = <<>>
            /\ workers[w].ret[1].user_id = workers[w].prev.uid
            /\ workers[w].ret[1].device_id = workers[w].prev.did
            /\ workers[w].ret[1].is_authenticated = (workers[w].prev.uid # None)

C5_Witness ==
    \E w \in Workers :
        /\ CreateThenGet(w)
        /\ workers[w].prev.uid = "u1"
        /\ workers[w].prev.did = "d1"
        /\ Len(workers[w].ret) = 1

\* C6: a step in which Create is called with neither a user id nor a device id
\* (None or empty) returns InvalidIdentity and leaves every session record and
\* every index as it was.
C6_CreateWithoutIdentity ==
    [][\A w \in Workers :
        (/\ workers[w].pc = "idle"
         /\ workers'[w] # workers[w]
         /\ workers'[w].op = "create"
         /\ ~Truthy(workers'[w].uid)
         /\ ~Truthy(workers'[w].did))
        => /\ workers'[w].pc = "idle"
           /\ workers'[w].status = "InvalidIdentity"
           /\ sessions' = sessions
           /\ devIndex' = devIndex
           /\ usrIndex' = usrIndex]_vars

C6_Witness ==
    \E w \in Workers :
        /\ Done(w, "create")
        /\ workers[w].status = "InvalidIdentity"
        /\ workers[w].uid = None
        /\ workers[w].did = None

\* worker w has just returned from its second upgrade_to_authenticated(s, u) in a
\* row, both successful, the first within the TTL, no time having passed since
UpgradedTwice(w) ==
    /\ Done(w, "upgrade")
    /\ workers[w].status = "ok"
    /\ workers[w].prev.op = "upgrade"
    /\ workers[w].prev.status = "ok"
    /\ Quick(workers[w].prev.t0, workers[w].prev.doneAt)
    /\ workers[w].prev.sid = workers[w].sid
    /\ workers[w].prev.uid = workers[w].uid
    /\ workers[w].prev.doneAt = workers[w].doneAt

\* C7: the store after the second of two successive UpgradeToAuthenticated(s, u)
\* is the store after the first: the record of s up to its timestamps, and the
\* members of every device index and user index.
C7_UpgradeIdempotent ==
    \A w \in Workers :
        UpgradedTwice(w) =>
            /\ Len(workers[w].snap.sess) = 1
            /\ Len(workers[w].prev.snap.sess) = 1
            /\ Content(workers[w].snap.sess[1]) = Content(workers[w].prev.snap.sess[1])
            /\ workers[w].snap.dev = workers[w].prev.snap.dev
            /\ workers[w].snap.usr = workers[w].prev.snap.usr

C7_Witness ==
    \E w \in Workers :
        /\ UpgradedTwice(w)
        /\ workers[w].snap.sess[1].user_id = "u1"
        /\ workers[w].snap.sess[1].is_authenticated
        /\ "s1" \in workers[w].snap.usr["u1"]

\* C8: a step in which UpgradeToAuthenticated is called on a session id with no
\* live record returns SessionNotFound and leaves every session record and every
\* index as it was.
C8_UpgradeMissing ==
    [][\A w \in Workers :
        (/\ workers[w].pc = "idle"
         /\ workers'[w] # workers[w]
         /\ workers'[w].op = "upgrade"
         /\ ~Live(workers'[w].sid))
        => /\ workers'[w].pc = "idle"
           /\ workers'[w].status = "SessionNotFound"
           /\ sessions' = sessions
           /\ devIndex' = devIndex
           /\ usrIndex' = usrIndex]_vars

C8_Witness ==
    \E w \in Workers :
        /\ Done(w, "upgrade")
        /\ workers[w].status = "SessionNotFound"
        /\ ~Live(workers[w].sid)
        /\ workers[w].uid \notin DOMAIN usrIndex

\* worker w has just returned from a successful migrate_device_sessions(d, u) that
\* took less than the session TTL, and nothing has happened since
Migrated(w) ==
    /\ Done(w, "migrate")
    /\ workers[w].status = "ok"
    /\ workers[w].doneAt = now
    /\ Quick(workers[w].t0, workers[w].doneAt)

\* C10: after MigrateDeviceSessions(d, u) has returned, every live session indexed
\* under d has user_id = u, is authenticated and is a member of the user index of
\* u; and the sessions the call enumerated are still members of the device index.
C10_MigrateUpgradesAll ==
    \A w \in Workers :
        Migrated(w) =>
            /\ \A s \in RedisSmembers(devIndex, workers[w].did) :
                Live(s) =>
                    /\ Data(s).user_id = workers[w].uid
                    /\ Data(s).is_authenticated
                    /\ s \in RedisSmembers(usrIndex, workers[w].uid)
            /\ \A i \in 1..Len(workers[w].list) :
                workers[w].did \in DOMAIN devIndex =>
                    workers[w].list[i].session_id \in devIndex[workers[w].did].members
            /\ workers[w].count = Len(workers[w].list)

C10_Witness ==
    \E w \in Workers :
        /\ Migrated(w)
        /\ workers[w].count = 2
        /\ \A s \in {"s1", "s2"} :
            /\ Live(s)
            /\ s \in RedisSmembers(devIndex, workers[w].did)
            /\ Data(s).user_id = workers[w].uid

----------------------------------------------------------------------------
(* Workers appending to one session at the same time *)

InitAppend ==
    /\ \E k \in {0, MaxMessages - 2, MaxMessages - 1, MaxMessages} : GuestStore(1, k)
    /\ observe = FALSE
    /\ owned = FirstOwned
    /\ chat = IdleChat
    /\ LimiterOff

NextAppend ==
    \/ \E w \in Workers : AddMessageCall(w, "s1", "user", "absent", "absent")
    \/ \E w \in Workers : AddMessageEval(w)
    \/ Tick

SpecAppend == InitAppend /\ [][NextAppend]_vars

Quiescent == \A w \in Workers : workers[w].pc = "idle"

\* C1: when the concurrent AddMessage calls on a live session have all returned,
\* its messages are the initial ones and one per call, cut to the last 50: the
\* length is min(N + initial_count, 50), no message occurs twice, and the order is
\* the order in which the store ran the appends.
C1_ConcurrentAppends ==
    (Quiescent /\ Live("s1")) =>
        /\ Len(log["s1"]) = nextMsg - 1
        /\ Len(Data("s1").messages) = Min(nextMsg - 1, MaxMessages)
        /\ Cardinality(SeqRange(MsgIds(Data("s1").messages))) = Len(Data("s1").messages)
        /\ MsgIds(Data("s1").messages) = LastN(log["s1"], MaxMessages)

\* three or more calls have returned, the list has overflowed, and the store ran
\* two of the appends in the opposite order of their calls
C1_Witness ==
    /\ Quiescent
    /\ Live("s1")
    /\ nextMsg - 1 > MaxMessages + 1
    /\ Len(Data("s1").messages) = MaxMessages
    /\ \E i \in 1..(Len(log["s1"]) - 1) : log["s1"][i] > log["s1"][i + 1]
    /\ \A w \in Workers : workers[w].op = "add" /\ workers[w].status = "ok"

----------------------------------------------------------------------------
(* Workers appending to, upgrading, annotating and deleting one session *)

InitConc ==
    /\ \E k \in {0, MaxMessages - 1} : GuestStore(1, k)
    /\ observe = FALSE
    /\ owned = FirstOwned
    /\ chat = IdleChat
    /\ LimiterOff

NextConc ==
    \/ \E w \in Racers, s \in {"s1", "s2"} : AddMessageCall(w, s, "user", "absent", "absent")
    \/ \E w \in Racers : AddMessageEval(w)
    \/ \E w \in Racers : UpgradeCall(w, "s1", "u1")
    \/ \E w \in Racers : UpgradeIndex(w)
    \/ \E w \in Racers : SetGuestInfoCall(w, "s1", "g1")
    \/ \E w \in Racers : Update(w)
    \/ \E w \in Racers : DeleteCall(w, "s1", "u1")
    \/ \E w \in Racers : DeleteStep(w)
    \/ Tick

SpecConc == InitConc /\ [][NextConc]_vars

\* worker w runs the script of its add_message in this step
Evaluates(w) == workers[w].pc = "add_eval" /\ workers'[w].pc = "idle"

\* C2: every stored session has at most 50 messages, and an AddMessage that runs
\* on a live session leaves the old messages followed by the new one, cut to the
\* last 50: on overflow exactly the oldest go, the rest keep their order.
C2_AtMostFiftyOldestTrimmed ==
    /\ [](\A s \in DOMAIN sessions : Len(Data(s).messages) <= MaxMessages)
    /\ [][\A w \in Workers :
            (Evaluates(w) /\ Live(workers[w].sid)) =>
                /\ Live(workers[w].sid)'
                /\ MsgIds(sessions'[workers[w].sid].data.messages) =
                     LastN(Append(MsgIds(Data(workers[w].sid).messages),
                                  workers[w].msg[1].id), MaxMessages)]_vars

\* a worker has appended to a full list: the oldest message is gone
C2_Witness ==
    /\ Live("s1")
    /\ Len(Data("s1").messages) = MaxMessages
    /\ Len(log["s1"]) = MaxMessages + 1
    /\ Data("s1").messages[1].id = log["s1"][2]
    /\ \E w \in Workers : Done(w, "add") /\ workers[w].status = "ok"

\* C3: a message whose AddMessage returned successfully is in the session's
\* messages as long as the record lives and fewer than 50 messages were appended
\* after it.
C3_NoAckedMessageLost ==
    \A s \in DOMAIN sessions :
        \A i \in 1..Len(log[s]) :
            i > Len(log[s]) - MaxMessages =>
                log[s][i] \in SeqRange(MsgIds(Data(s).messages))

\* C4: a step in which the script of AddMessage runs on a session id with no
\* record returns SessionNotFound and leaves every session record and every index
\* as it was.
C4_AddMessageMissing ==
    [][\A w \in Workers :
        (Evaluates(w) /\ ~Live(workers[w].sid)) =>
            /\ workers'[w].status = "SessionNotFound"
            /\ sessions' = sessions
            /\ devIndex' = devIndex
            /\ usrIndex' = usrIndex]_vars

\* AddMessage has failed on an id never created, and on one that was deleted or expired
C4_Witness ==
    /\ \E w \in Workers :
        /\ Done(w, "add") /\ workers[w].status = "SessionNotFound"
        /\ workers[w].sid = "s2"
    /\ \E w \in Workers :
        /\ Done(w, "add") /\ workers[w].status = "SessionNotFound"
        /\ workers[w].sid = "s1"
    /\ DOMAIN sessions = {}

\* worker w runs the SETEX of update() in this step, for set_guest_info or
\* upgrade_to_authenticated
Updates(w) == workers[w].pc = "update" /\ workers'[w] # workers[w]

\* C17: the step that completes a successful AddMessage, SetGuestInfo or
\* UpgradeToAuthenticated leaves the session's record with the configured TTL.
C17_MutationResetsTtl ==
    [][\A w \in Workers :
        ((Evaluates(w) /\ workers'[w].status = "ok") \/ Updates(w)) =>
            /\ Live(workers[w].sid)'
            /\ sessions'[workers[w].sid].ttl = SESSION_TTL]_vars

\* a session outlives its first TTL period: appended to when half of it had
\* gone, annotated when the first period ended, it has the full TTL again
C17_Witness ==
    /\ now * TickSeconds >= SESSION_TTL
    /\ Live("s1")
    /\ sessions["s1"].ttl = SESSION_TTL
    /\ Data("s1").guest_info = <<"g1">>
    /\ Data("s1").last_activity = now
    /\ Len(Data("s1").messages) % MaxMessages = 1
    /\ \E w \in Workers : Done(w, "set_guest_info") /\ workers[w].status = "ok"
    /\ \E w \in Workers : Done(w, "add") /\ workers[w].status = "ok"

\* C9: a session record stored as authenticated is never afterwards stored with
\* is_authenticated false or without a user id.
C9_NeverBackToGuest ==
    [][\A s \in DOMAIN sessions \cap DOMAIN sessions' :
        Data(s).is_authenticated =>
            /\ sessions'[s].data.is_authenticated
            /\ Truthy(sessions'[s].data.user_id)]_vars

----------------------------------------------------------------------------
(* One worker reading and cleaning up the sessions of a device *)

\* the orders in which the three sessions were last touched
Stamps == {f \in [SessionIds -> {0 - 3, 0 - 2, 0 - 1}] :
              \A a, b \in SessionIds : a # b => f[a] # f[b]}

\* guest sessions of device d1, last touched at distinct instants shortly before
\* time 0: the ids in live have a record, the ids in members are in the index
DeviceStore(live, members, stamp) ==
    /\ sessions = [s \in live |->
            [data |-> NewSession(s, None, "d1", stamp[s]), ttl |-> SESSION_TTL]]
    /\ devIndex = IF members = {} THEN <<>>
                  ELSE [d \in {"d1"} |-> [members |-> members, ttl |-> SESSION_TTL]]
    /\ usrIndex = <<>>
    /\ now = 0
    /\ workers = [w \in Workers |-> IdleWorker]
    /\ nextMsg = 1
    /\ issued = live \cup members
    /\ log = [s \in SessionIds |-> <<>>]

InitDevice ==
    /\ \E live \in SUBSET SessionIds, members \in {{}, {"s1", "s2"}, SessionIds},
          stamp \in Stamps : DeviceStore(live, members, stamp)
    /\ observe = TRUE
    /\ owned = FirstOwned
    /\ chat = IdleChat
    /\ LimiterOff

NextDevice ==
    \/ GetCall("w1", "s1")
    \/ GetByDeviceCall("w1", "d1")
    \/ GetLatestByDeviceCall("w1", "d1")
    \/ \E keep \in {1, 2} : CleanupCall("w1", "d1", keep)
    \/ GetByDeviceStep("w1")
    \/ CleanupDelete("w1")
    \/ AddMessageCall("w1", "s1", "user", "absent", "absent")
    \/ AddMessageEval("w1")
    \/ Tick

SpecDevice == InitDevice /\ [][NextDevice]_vars

----------------------------------------------------------------------------
(* Properties of the device operations run alone (SpecDevice) *)

Max(a, b) == IF a > b THEN a ELSE b

\* worker w has just returned from op, no time passed during the call or since
JustRan(w, op) ==
    /\ Done(w, op)
    /\ workers[w].t0 = workers[w].doneAt
    /\ workers[w].doneAt = now

\* the sessions of device d a call finds in the records ss: indexed and live
Found(ss, d) == {s \in RedisSmembers(devIndex, d) : s \in DOMAIN ss}

\* C12: CleanupDevice(d, keepLatest >= 1) run alone on n live indexed sessions
\* with distinct last_activity deletes exactly max(0, n - keepLatest) records,
\* those with the oldest last_activity, leaves the other records as they were and
\* returns the number deleted.
C12_CleanupDeletesOldest ==
    \A w \in Workers :
        (JustRan(w, "cleanup") /\ workers[w].keep >= 1) =>
            LET pre == workers[w].pre
                found == Found(pre, workers[w].did)
                gone == DOMAIN pre \ DOMAIN sessions
            IN (\A a, b \in found :
                    a # b => pre[a].data.last_activity # pre[b].data.last_activity)
               => /\ workers[w].status = "ok"
                  /\ gone \subseteq found
                  /\ Cardinality(gone) = Max(0, Cardinality(found) - workers[w].keep)
                  /\ \A a \in gone, b \in found \ gone :
                        pre[a].data.last_activity < pre[b].data.last_activity
                  /\ workers[w].count = Cardinality(gone)
                  /\ \A s \in DOMAIN pre \ gone : sessions[s] = pre[s]
                  /\ DOMAIN sessions \subseteq DOMAIN pre

\* three sessions, keepLatest = 1: the two oldest are gone, and the one kept is
\* not the one with the greatest id
C12_Witness ==
    \E w \in Workers :
        /\ JustRan(w, "cleanup")
        /\ workers[w].keep = 1
        /\ Cardinality(Found(workers[w].pre, "d1")) = 3
        /\ workers[w].count = 2
        /\ DOMAIN sessions = {"s1"}

\* a step of a Get, GetByDevice or GetLatestByDevice call
Reads(w) ==
    /\ workers'[w] # workers[w]
    /\ workers'[w].op \in {"get", "get_by_device", "get_latest"}

\* C18: no step of Get, GetByDevice or GetLatestByDevice changes a session record,
\* its remaining TTL or an index; the TTL of a record that is only read keeps
\* running down.
C18_ReadsChangeNothing ==
    [][\A w \in Workers :
        Reads(w) => /\ sessions' = sessions
                    /\ devIndex' = devIndex
                    /\ usrIndex' = usrIndex]_vars

\* a session read by Get and then found by GetLatestByDevice, its TTL half gone
C18_Witness ==
    \E w \in Workers :
        /\ Done(w, "get_latest")
        /\ workers[w].prev.op = "get"
        /\ workers[w].prev.doneAt < workers[w].t0
        /\ Len(workers[w].ret) = 1
        /\ workers[w].ret[1].session_id = "s1"
        /\ Live("s1")
        /\ sessions["s1"].ttl < SESSION_TTL

\* C20: GetByDevice(d) never fails and returns the records of exactly the members
\* of d's index that are live when fetched, each once; GetLatestByDevice(d)
\* returns one of them with the greatest last_activity, or None when there is none.
C20_GetByDeviceSkipsDangling ==
    \A w \in Workers :
        /\ (Done(w, "get_by_device") \/ Done(w, "get_latest")) => workers[w].status = "ok"
        /\ JustRan(w, "get_by_device") =>
            /\ Len(workers[w].ret) = Cardinality(Found(sessions, workers[w].did))
            /\ SeqRange(workers[w].ret) = {Data(s) : s \in Found(sessions, workers[w].did)}
        /\ JustRan(w, "get_latest") =>
            IF Found(sessions, workers[w].did) = {}
            THEN workers[w].ret = <<>>
            ELSE /\ Len(workers[w].ret) = 1
                 /\ \E s \in Found(sessions, workers[w].did) : workers[w].ret[1] = Data(s)
                 /\ \A s \in Found(sessions, workers[w].did) :
                        Data(s).last_activity <= workers[w].ret[1].last_activity

\* the index has a member without a record; GetByDevice returned the two others,
\* and GetLatestByDevice the later of them, which is not the first one listed
C20_Witness ==
    \E w \in Workers :
        /\ JustRan(w, "get_latest")
        /\ workers[w].prev.op = "get_by_device"
        /\ Len(workers[w].prev.snap.sess) = 0
        /\ RedisSmembers(devIndex, "d1") = SessionIds
        /\ Found(sessions, "d1") = {"s1", "s2"}
        /\ workers[w].ret[1].session_id = "s1"
        /\ Data("s2").last_activity < Data("s1").last_activity

----------------------------------------------------------------------------
(* A cleanup of a device racing with appends and TTL extensions *)

InitDeviceRace ==
    /\ \E stamp \in {f \in Stamps : f["s3"] = 0 - 1} :
            DeviceStore(SessionIds, SessionIds, stamp)
    /\ observe = FALSE
    /\ owned = FirstOwned
    /\ chat = IdleChat
    /\ LimiterOff

NextDeviceRace ==
    \/ \E keep \in {1, 2} : CleanupCall("w1", "d1", keep)
    \/ CleanupDelete("w1")
    \/ GetByDeviceStep("w1")
    \/ \E s \in {"s1", "s3"} : AddMessageCall("w2", s, "user", "absent", "absent")
    \/ AddMessageEval("w2")
    \/ \E s \in {"s1", "s3"} : ExtendTtlCall("w2", s)
    \/ ExtendTtlExpire("w2")
    \/ Tick

SpecDeviceRace == InitDeviceRace /\ [][NextDeviceRace]_vars

----------------------------------------------------------------------------
(* A migration of a device's sessions racing with a cleanup of the device *)

InitMigrateRace ==
    /\ \E stamp \in {f \in Stamps : f["s3"] = 0 - 1} :
            DeviceStore({"s1", "s2"}, {"s1", "s2"}, stamp)
    /\ observe = FALSE
    /\ owned = FirstOwned
    /\ chat = IdleChat
    /\ LimiterOff

NextMigrateRace ==
    \/ CleanupCall("w1", "d1", 1)
    \/ CleanupDelete("w1")
    \/ MigrateCall("w2", "d1", "u1")
    \/ \E w \in Racers : GetByDeviceStep(w)
    \/ MigrateUpgrade("w2")
    \/ UpgradeIndex("w2")
    \/ Update("w2")
    \/ Tick

SpecMigrateRace == InitMigrateRace /\ [][NextMigrateRace]_vars

\* C11: MigrateDeviceSessions(d, u) does not fail when a session it enumerated is
\* deleted or expires before its upgrade: it returns, with the number of sessions
\* it gave to u.
C11_MigrateSurvivesVanishing ==
    \A w \in Workers : Done(w, "migrate") => workers[w].status = "ok"

\* the sessions a running cleanup has decided to delete
Doomed(w) ==
    IF workers[w].pc = "cleanup_del"
    THEN {workers[w].list[i].session_id : i \in 1..Len(workers[w].list)}
    ELSE {}

\* C13: a step of CleanupDevice changes nothing but removing records of its
\* deletion set: every other record keeps its content and its TTL, and the device
\* and user indexes keep their members (the ids of deleted records included).
C13_CleanupTouchesOnlyDoomed ==
    [][\A w \in Workers :
        (workers'[w] # workers[w] /\ workers'[w].op = "cleanup") =>
            /\ devIndex' = devIndex
            /\ usrIndex' = usrIndex
            /\ DOMAIN sessions' \subseteq DOMAIN sessions
            /\ (DOMAIN sessions \ DOMAIN sessions') \subseteq Doomed(w)
            /\ \A s \in DOMAIN sessions' : sessions'[s] = sessions[s]]_vars

\* a cleanup has deleted the two oldest sessions while a message was appended to
\* the one it kept: the message is there, and the index still lists all three
C13_Witness ==
    /\ Done("w1", "cleanup")
    /\ workers["w1"].count = 2
    /\ workers["w2"].calls = 1
    /\ Done("w2", "add") /\ workers["w2"].status = "ok"
    /\ DOMAIN sessions = {"s3"}
    /\ Len(Data("s3").messages) = 1
    /\ RedisSmembers(devIndex, "d1") = SessionIds

\* worker w runs the EXISTS of extend_ttl in this step
ChecksExistence(w) ==
    /\ workers[w].pc = "idle"
    /\ workers'[w] # workers[w]
    /\ workers'[w].op = "extend_ttl"

\* worker w runs the EXPIRE of extend_ttl in this step and returns
Extends(w) == workers[w].pc = "ext_expire" /\ workers'[w].pc = "idle"

\* C19 as stated: whenever ExtendTTL(s) returns true the record of s is there with
\* the configured TTL, also when it was deleted or expired during the call.
C19_TrueMeansExtended ==
    [][\A w \in Workers :
        (Extends(w) /\ workers'[w].ret = <<TRUE>>) =>
            /\ Live(workers[w].sid)'
            /\ sessions'[workers[w].sid].ttl = SESSION_TTL]_vars

\* C19 amended: ExtendTTL(s) returns false, writing nothing, exactly when the
\* record is absent at its existence check, and true otherwise; its EXPIRE gives a
\* record still there the configured TTL and leaves its content alone, and creates
\* nothing when the record has gone in between; no step changes anything else.
C19_ExtendTtlFrame ==
    [][\A w \in Workers :
        /\ ChecksExistence(w) =>
            /\ sessions' = sessions
            /\ IF Live(workers'[w].sid)
               THEN workers'[w].pc = "ext_expire"
               ELSE workers'[w].pc = "idle" /\ workers'[w].ret = <<FALSE>>
        /\ Extends(w) =>
            /\ workers'[w].ret = <<TRUE>>
            /\ DOMAIN sessions' = DOMAIN sessions
            /\ \A s \in DOMAIN sessions :
                /\ sessions'[s].data = sessions[s].data
                /\ sessions'[s].ttl =
                     IF s = workers[w].sid THEN SESSION_TTL ELSE sessions[s].ttl
        /\ (ChecksExistence(w) \/ Extends(w)) =>
            /\ devIndex' = devIndex
            /\ usrIndex' = usrIndex]_vars

\* ExtendTTL has returned true for a session half way to its expiry, now with the
\* full TTL and the last_activity it had, and false for one that was deleted
C19_Witness ==
    /\ Done("w2", "extend_ttl")
    /\ workers["w2"].ret = <<TRUE>>
    /\ workers["w2"].sid = "s3"
    /\ now = 1
    /\ Live("s3")
    /\ sessions["s3"].ttl = SESSION_TTL
    /\ Data("s3").last_activity < 0

----------------------------------------------------------------------------
(* Workers calling the rate limiter *)

InitRate ==
    /\ GuestStore(0, 0)
    /\ observe = FALSE
    /\ owned = FirstOwned
    /\ chat = IdleChat
    /\ counters = <<>>
    /\ clock = 0
    /\ callers = [w \in Racers |-> IdleCaller]
    /\ rateArgs \in [max_requests : {1, 2}, window_seconds : {60, 120}]
    /\ rateLog = <<>>

NextRate ==
    \/ \E w \in Racers, identity \in Identities : CheckRateLimitCall(w, identity)
    \/ \E w \in Racers : CheckRateLimitExpire(w)
    \/ RateTick

SpecRate == InitRate /\ [][NextRate]_vars

\* the calls, by their place in the log, that incremented counter c
CallsOn(c) == {i \in 1..Len(rateLog) : rateLog[i].counter = c}

\* the call was let through: its count did not exceed max_requests
Admitted(e) == e.count <= rateArgs.max_requests

\* C14: on every counter the k-th call counts k, so no two calls see the same
\* count; a call returns its count when it is at most max_requests and fails with
\* RateLimitExceeded otherwise; the stored counter is the number of calls made,
\* rejected ones included; at most max_requests calls per counter are let through.
C14_CountsAndRejects ==
    /\ \A i \in 1..Len(rateLog) :
        /\ rateLog[i].count = Cardinality({j \in CallsOn(rateLog[i].counter) : j <= i})
        /\ rateLog[i].status # "running" =>
            (rateLog[i].status = "ok" <=> Admitted(rateLog[i]))
        /\ rateLog[i].status = "running" => Admitted(rateLog[i])
        /\ Cardinality({j \in CallsOn(rateLog[i].counter) : Admitted(rateLog[j])})
              <= rateArgs.max_requests
    /\ \A key \in DOMAIN counters :
        counters[key].count = Cardinality(CallsOn(counters[key].born))

\* max_requests = 2: two callers have made three calls for one identity in one
\* minute; the third was rejected and the counter stands at 3
C14_Witness ==
    /\ rateArgs.max_requests = 2
    /\ Len(rateLog) = 3
    /\ \A i \in 1..3 : rateLog[i].identity = "d1" /\ rateLog[i].count = i
    /\ rateLog[2].status = "ok"
    /\ rateLog[3].status = "RateLimitExceeded"
    /\ counters[RateKey("d1", clock)].count = 3
    /\ \A w \in Racers : callers[w].pc = "idle"

C16_WindowBuckets ==
    /\ \A i, j \in 1..Len(rateLog) :
        rateLog[i].identity = rateLog[j].identity =>
            (rateLog[i].counter = rateLog[j].counter
                <=> rateLog[i].at \div rateArgs.window_seconds
                      = rateLog[j].at \div rateArgs.window_seconds)
    /\ \A identity \in Identities, t \in 0..clock :
        Cardinality({i \in 1..Len(rateLog) :
                        /\ rateLog[i].identity = identity
                        /\ Admitted(rateLog[i])
                        /\ t <= rateLog[i].at
                        /\ rateLog[i].at < t + rateArgs.window_seconds})
            <= 2 * rateArgs.max_requests

----------------------------------------------------------------------------
(* One worker alone on sessions that carry messages and guest info *)

\* n guest sessions of device d1 created at time 0, the first with k messages and
\* the guest info of an order
OrderStore(n, k, info) ==
    /\ sessions = [s \in {SessionOrder[i] : i \in 1..n} |->
            [data |-> [NewSession(s, None, "d1", 0) EXCEPT
                            !.messages = IF s = "s1" THEN ChatMessages(k) ELSE <<>>,
                            !.guest_info = IF s = "s1" THEN <<info>> ELSE <<>>],
             ttl |-> SESSION_TTL]]
    /\ devIndex = IF n = 0 THEN <<>>
                  ELSE [d \in {"d1"} |->
                            [members |-> {SessionOrder[i] : i \in 1..n},
                             ttl |-> SESSION_TTL]]
    /\ usrIndex = <<>>
    /\ now = 0
    /\ workers = [w \in Workers |-> IdleWorker]
    /\ nextMsg = k + 1
    /\ issued = {SessionOrder[i] : i \in 1..n}
    /\ log = [s \in SessionIds |-> IF s = "s1" /\ n > 0 THEN [i \in 1..k |-> i] ELSE <<>>]

InitAlone ==
    /\ \E n \in 0..2 : OrderStore(n, 2, "g1")
    /\ observe = TRUE
    /\ owned = FirstOwned
    /\ chat = IdleChat
    /\ LimiterOff

NextAlone ==
    \/ \E s \in {"s1", "s2"}, info \in {"g1", "g2"} : SetGuestInfoCall("w1", s, info)
    \/ Update("w1")
    \/ \E s \in {"s1", "s2"} : GetCall("w1", s)
    \/ \E s \in {"s1", "s2"}, u \in UserIds : UpgradeCall("w1", s, u)
    \/ UpgradeIndex("w1")
    \/ Tick

SpecAlone == InitAlone /\ [][NextAlone]_vars

\* worker w has just returned from get(s), called after its set_guest_info(s, info)
\* returned and less than the session TTL later
SetThenGet(w) ==
    /\ Done(w, "get")
    /\ workers[w].prev.op = "set_guest_info"
    /\ workers[w].prev.status = "ok"
    /\ workers[w].prev.sid = workers[w].sid
    /\ Quick(workers[w].prev.doneAt, workers[w].doneAt)

\* C21: Get(s) after SetGuestInfo(s, info) on a live session returns a session whose
\* guest_info is info, whatever guest info it had before; a step in which
\* SetGuestInfo is called on an id with no live record returns SessionNotFound and
\* leaves every session record and every index as it was.
C21_SetGuestInfo ==
    /\ [](\A w \in Workers :
            SetThenGet(w) =>
                /\ Len(workers[w].ret) = 1
                /\ workers[w].ret[1].guest_info = workers[w].prev.info)
    /\ [][\A w \in Workers :
            (/\ workers[w].pc = "idle"
             /\ workers'[w] # workers[w]
             /\ workers'[w].op = "set_guest_info"
             /\ ~Live(workers'[w].sid))
            => /\ workers'[w].pc = "idle"
               /\ workers'[w].status = "SessionNotFound"
               /\ sessions' = sessions
               /\ devIndex' = devIndex
               /\ usrIndex' = usrIndex]_vars

\* the guest info g1 of s1 was replaced by g2, and Get returned it
C21_Witness ==
    \E w \in Workers :
        /\ SetThenGet(w)
        /\ workers[w].calls = 2
        /\ workers[w].sid = "s1"
        /\ workers[w].prev.info = <<"g2">>
        /\ workers[w].ret[1].guest_info = <<"g2">>

\* worker w has returned from a successful upgrade_to_authenticated
UpgradedAlone(w) == Done(w, "upgrade") /\ workers[w].status = "ok"

\* C30: UpgradeToAuthenticated(s, u) run alone leaves session_id, device_id,
\* created_at, messages, context and guest_info of s as they were when it was
\* called, and makes u its authenticated owner; none of its steps changes another
\* session record, a device index, or the index of another user.
C30_UpgradeFrame ==
    /\ [](\A w \in Workers :
            UpgradedAlone(w) =>
                LET before == workers[w].pre[workers[w].sid].data
                    after == workers[w].snap.sess[1]
                IN /\ after.session_id = before.session_id
                   /\ after.device_id = before.device_id
                   /\ after.created_at = before.created_at
                   /\ after.messages = before.messages
                   /\ after.context = before.context
                   /\ after.guest_info = before.guest_info
                   /\ after.user_id = workers[w].uid
                   /\ after.is_authenticated)
    /\ [][\A w \in Workers :
            (workers'[w] # workers[w] /\ workers'[w].op = "upgrade") =>
                /\ devIndex' = devIndex
                /\ DOMAIN sessions' \subseteq DOMAIN sessions \cup {workers'[w].sid}
                /\ \A s \in DOMAIN sessions \ {workers'[w].sid} :
                    s \in DOMAIN sessions' /\ sessions'[s] = sessions[s]
                /\ \A u \in DOMAIN usrIndex \cup DOMAIN usrIndex' :
                    u # workers'[w].uid =>
                        u \in DOMAIN usrIndex /\ u \in DOMAIN usrIndex'
                        /\ usrIndex'[u] = usrIndex[u]]_vars

\* the guest session s1, with two messages and guest info, now belongs to u1
C30_Witness ==
    \E w \in Workers :
        /\ UpgradedAlone(w)
        /\ workers[w].sid = "s1"
        /\ workers[w].pre["s1"].data.user_id = None
        /\ workers[w].snap.sess[1].user_id = "u1"
        /\ Len(workers[w].snap.sess[1].messages) = 2
        /\ workers[w].snap.sess[1].guest_info = <<"g1">>
        /\ "s1" \in RedisSmembers(usrIndex, "u1")

----------------------------------------------------------------------------
(* Timestamps taken by the workers (SpecAppend) *)

\* C24: from one stored state of a session to the next its last_activity never
\* decreases, whatever the order in which the store runs the writes of workers
\* that took their timestamps before.
C24_LastActivityMonotone ==
    [][\A s \in DOMAIN sessions \cap DOMAIN sessions' :
        sessions'[s].data.last_activity >= sessions[s].data.last_activity]_vars

\* C23: every live session record created for a device is a member of a live
\* device index of that device, also when add_message keeps refreshing the TTL of
\* the record for longer than the session TTL and no session is created meanwhile.
C23_StaysEnumerable ==
    \A s \in DOMAIN sessions :
        Truthy(Data(s).device_id) => s \in RedisSmembers(devIndex, Data(s).device_id)

----------------------------------------------------------------------------
(* Messages with metadata appended to one session, and read back *)

InitRoundTrip ==
    /\ \E k \in {0, 2} : OrderStore(1, k, "g1")
    /\ observe = FALSE
    /\ owned = FirstOwned
    /\ chat = IdleChat
    /\ LimiterOff

NextRoundTrip ==
    \/ AddMessageCall("w1", "s1", "user", "absent", "absent")
    \/ \E products \in {"[]", "[p]"} :
            AddMessageCall("w1", "s1", "assistant", products, "search")
    \/ AddMessageEval("w1")
    \/ GetCall("w1", "s1")
    \/ Tick

SpecRoundTrip == InitRoundTrip /\ [][NextRoundTrip]_vars

\* C27: a successful add_message leaves session_id, the owner, created_at, context
\* and guest_info of the stored session as they were, stores the message as the
\* worker wrote it, metadata included (an empty products list stays an empty
\* list), and before it the retained earlier messages as they were stored.
C27_RoundTrip ==
    [][\A w \in Workers :
        (Evaluates(w) /\ workers'[w].status = "ok") =>
            LET s == workers[w].sid
                before == sessions[s].data
                after == sessions'[s].data
                n == Len(after.messages)
            IN /\ after.session_id = before.session_id
               /\ after.user_id = before.user_id
               /\ after.device_id = before.device_id
               /\ after.is_authenticated = before.is_authenticated
               /\ after.created_at = before.created_at
               /\ after.context = before.context
               /\ after.guest_info = before.guest_info
               /\ n >= 1
               /\ after.messages[n] = workers[w].msg[1]
               /\ SubSeq(after.messages, 1, n - 1) = LastN(before.messages, n - 1)]_vars

----------------------------------------------------------------------------
(* What the indexes point to (SpecAlone) *)

\* C22: in every state, also one a worker would leave behind by failing between
\* two store commands, every member of a device index or of a user index whose
\* record is live has a record that lists that device or user as an owner, or
\* listed it in an earlier stored state.
C22_IndexedSessionsOwned ==
    /\ \A d \in DOMAIN devIndex : \A s \in devIndex[d].members :
            Live(s) => d \in owned[s]
    /\ \A u \in DOMAIN usrIndex : \A s \in usrIndex[u].members :
            Live(s) => u \in owned[s]

----------------------------------------------------------------------------
(* POST /chat/message (api/chat.py, send_message) *)

\* the request ends with an exception
ChatRaise(c, status) == [c EXCEPT !.pc = "idle", !.status = status]

\* lines 48-53: the user of the token, else the device of the request
ChatIdentity(c) == IF c.user # None THEN c.user ELSE c.device

\* lines 105-106, 120-121: the owner arguments given to create
ChatUser(c) == c.user
ChatDevice(c) == IF c.user # None THEN None ELSE c.device

\* lines 60-64 and 83-87 with rate_limit.py 26-41: INCR on the counter of the
\* identity; the call that counted 1 sets the TTL next, the others have their outcome
ChatCheck(c, expire, next) ==
    LET key == RateKey(ChatIdentity(c), clock)
        cs == RedisIncr(key)
        count == cs[key].count
    IN /\ counters' = cs
       /\ chat' = IF FirstInWindow(count)
                  THEN [c EXCEPT !.pc = expire, !.key = key, !.count = count]
                  ELSE IF RateOutcome(count) = "ok"
                  THEN [c EXCEPT !.pc = next, !.key = key, !.count = count]
                  ELSE ChatRaise([c EXCEPT !.key = key, !.count = count],
                                 "RateLimitExceeded")

\* lines 48-64: a request arrives (user: the user of its token, or None; device
\* and given: device_id and session_id of its body); the identity, the first
\* check_rate_limit
ChatCall(user, device, given) ==
    LET c == [chat EXCEPT
                !.pc = "rate1", !.user = user, !.device = device, !.given = given,
                !.sid = given, !.status = "running", !.key = <<>>, !.count = 0,
                !.saved = 0, !.turn = @ + 1,
                !.proto = /\ chat.proto
                          /\ user = None
                          /\ device = "d1"
                          /\ given = (IF chat.turn = 0 THEN None ELSE chat.sid)]
    IN /\ chat.pc = "idle"
       /\ chat.turn < MaxTurns
       /\ IF user = None /\ ~Truthy(device)
          THEN /\ chat' = ChatRaise(c, "BadRequest")
               /\ counters' = counters
          ELSE ChatCheck([c EXCEPT !.turns[ChatIdentity(c)] = @ + 1],
                         "rate1_expire", "cleanup_task")
       /\ UNCHANGED <<clock, callers, rateArgs, rateLog>>
       /\ UNCHANGED <<sessions, devIndex, usrIndex, now, workers, nextMsg, issued, log,
                      observe, owned>>

\* rate_limit.py 31-41: EXPIRE by the call that counted 1, and its outcome
ChatRateExpire ==
    /\ chat.pc \in {"rate1_expire", "rate2_expire"}
    /\ counters' = IF chat.key \in DOMAIN counters
                   THEN Put(counters, chat.key,
                            [counters[chat.key] EXCEPT
                                !.ttl = rateArgs.window_seconds, !.setAt = clock])
                   ELSE counters
    /\ chat' = IF RateOutcome(chat.count) = "ok"
               THEN [chat EXCEPT !.pc = IF chat.pc = "rate1_expire"
                                        THEN "cleanup_task" ELSE "session"]
               ELSE ChatRaise(chat, "RateLimitExceeded")
    /\ UNCHANGED <<clock, callers, rateArgs, rateLog>>
    /\ UNCHANGED <<sessions, devIndex, usrIndex, now, workers, nextMsg, issued, log,
                   observe, owned>>

\* lines 69-75: for a guest, session_manager.cleanup_device_sessions is evaluated
\* while session_manager, a local variable of send_message assigned at line 95, is
\* not bound yet: UnboundLocalError
ChatCleanupTask ==
    /\ chat.pc = "cleanup_task"
    /\ chat' = IF chat.user = None /\ Truthy(chat.device)
               THEN ChatRaise(chat, "UnboundLocalError")
               ELSE [chat EXCEPT !.pc = "rate2"]
    /\ UNCHANGED <<sessions, devIndex, usrIndex, now, workers, nextMsg, issued, log,
                   observe, owned, limiter>>

\* lines 79-90: the second check_rate_limit of the request
ChatRate2 ==
    /\ chat.pc = "rate2"
    /\ ChatCheck(chat, "rate2_expire", "session")
    /\ UNCHANGED <<clock, callers, rateArgs, rateLog>>
    /\ UNCHANGED <<sessions, devIndex, usrIndex, now, workers, nextMsg, issued, log,
                   observe, owned>>

\* lines 97-116: with a session_id in the request, GET; a session that is found
\* has its ownership verified with is_authenticated, a name defined nowhere:
\* NameError; one that is not found is replaced by a new one
ChatGet ==
    /\ chat.pc = "session"
    /\ Truthy(chat.given)
    /\ chat' = IF RedisGet(chat.given) # <<>>
               THEN ChatRaise(chat, "NameError")
               ELSE [chat EXCEPT !.pc = "create"]
    /\ UNCHANGED <<sessions, devIndex, usrIndex, now, workers, nextMsg, issued, log,
                   observe, owned, limiter>>

\* lines 104-107 and 119-122, with session_manager.py 45-68: create, called with
\* no session id, writes the record of a new session under a new id
ChatCreate(fresh) ==
    LET uid == ChatUser(chat)
        did == ChatDevice(chat)
        ss == RedisSetex(fresh, SESSION_TTL, NewSession(fresh, uid, did, now))
        nxt == CreateNext("setex", uid, did)
    IN /\ chat.pc = "create" \/ (chat.pc = "session" /\ ~Truthy(chat.given))
       /\ fresh \notin issued
       /\ IF IdentityMissing(uid, did)
          THEN /\ chat' = ChatRaise(chat, "InvalidIdentity")
               /\ UNCHANGED <<sessions, issued, log>>
          ELSE /\ sessions' = ss
               /\ issued' = issued \cup {fresh}
               /\ log' = [log EXCEPT ![fresh] = <<>>]
               /\ chat' = [chat EXCEPT !.sid = fresh,
                                       !.pc = IF nxt = "idle" THEN "save_user" ELSE nxt]
       /\ owned' = Owned(sessions')
       /\ UNCHANGED <<devIndex, usrIndex, now, workers, nextMsg, observe, limiter>>

\* session_manager.py 71-77 inside that create, then lines 108 and 123
ChatCreateIndex ==
    LET uid == ChatUser(chat)
        did == ChatDevice(chat)
        nxt == CreateNext(chat.pc, uid, did)
    IN /\ chat.pc \in {"create_sadd_dev", "create_exp_dev",
                       "create_sadd_usr", "create_exp_usr"}
       /\ devIndex' = CASE chat.pc = "create_sadd_dev" -> RedisSadd(devIndex, did, chat.sid)
                        [] chat.pc = "create_exp_dev" ->
                                RedisExpire(devIndex, did, SESSION_TTL)
                        [] OTHER -> devIndex
       /\ usrIndex' = CASE chat.pc = "create_sadd_usr" -> RedisSadd(usrIndex, uid, chat.sid)
                        [] chat.pc = "create_exp_usr" ->
                                RedisExpire(usrIndex, uid, SESSION_TTL)
                        [] OTHER -> usrIndex
       /\ chat' = [chat EXCEPT !.pc = IF nxt = "idle" THEN "save_user" ELSE nxt]
       /\ UNCHANGED <<sessions, now, workers, nextMsg, issued, log, observe, owned,
                      limiter>>

\* lines 129-135: add_message(session_id, role="user", content) with no handler
\* for the ValueError it raises when the script finds no record
ChatSaveUser ==
    LET message == [id |-> nextMsg, role |-> "user", timestamp |-> now,
                    products |-> "absent", intent |-> "absent"]
    IN /\ chat.pc = "save_user"
       /\ nextMsg' = nextMsg + 1
       /\ IF ScriptGet(chat.sid) = <<>>
          THEN /\ chat' = ChatRaise(chat, "SessionNotFound")
               /\ UNCHANGED <<sessions, log>>
          ELSE /\ sessions' = RedisSetex(chat.sid, SESSION_TTL,
                                AddMessageScript(ScriptGet(chat.sid)[1], message, now))
               /\ log' = [log EXCEPT ![chat.sid] = Append(@, message.id)]
               /\ chat' = [chat EXCEPT !.pc = "kafka", !.saved = message.id]
       /\ owned' = Owned(sessions')
       /\ UNCHANGED <<devIndex, usrIndex, now, workers, issued, observe, limiter>>

\* lines 142-150: the Kafka message is built with is_authenticated, a name defined
\* nowhere: NameError.  Lines 153-236 (the AI call, the assistant message, the
\* response) are never reached.
ChatKafka ==
    /\ chat.pc = "kafka"
    /\ chat' = ChatRaise(chat, "NameError")
    /\ UNCHANGED <<sessions, devIndex, usrIndex, now, workers, nextMsg, issued, log,
                   observe, owned, limiter>>

----------------------------------------------------------------------------
(* Chat turns, one after the other, while the user deletes sessions *)

InitChat ==
    /\ GuestStore(0, 0)
    /\ observe = FALSE
    /\ owned = FirstOwned
    /\ chat = IdleChat
    /\ LimiterOff

NextChat ==
    \/ \E user \in {None, "u1"}, device \in {None, "d1"}, given \in {None, "s1"} :
            ChatCall(user, device, given)
    \/ ChatRateExpire
    \/ ChatCleanupTask
    \/ ChatRate2
    \/ ChatGet
    \/ \E fresh \in FreshIds : ChatCreate(fresh)
    \/ ChatCreateIndex
    \/ ChatSaveUser
    \/ ChatKafka
    \/ \E s \in SessionIds : DeleteCall("w1", s, "u1")
    \/ DeleteStep("w1")

SpecChat == InitChat /\ [][NextChat]_vars

\* the value of the rate-limit counter of an identity in the current window
Counted(identity) ==
    IF RateKey(identity, clock) \in DOMAIN counters
    THEN counters[RateKey(identity, clock)].count
    ELSE 0

\* C25: a step in which the add_message of a chat turn finds no record for the
\* session (it expired or was deleted since the turn got or created it) does not
\* fail the request: the turn goes on to create a new session and append again.
C25_CreateAndRetry ==
    [][(/\ chat.pc = "save_user"
        /\ chat' # chat
        /\ ScriptGet(chat.sid) = <<>>)
       => /\ chat'.status = "running"
          /\ chat'.pc = "create"]_vars

\* C26: after k guest chat turns of device d1 made one after the other within the
\* rate limit, the first without a session id and each later one with the session
\* id of the turn before, exactly one session of d1 exists and its messages are 2k
\* entries alternating user, assistant, starting with user.
C26_GuestTurns ==
    (/\ chat.pc = "idle"
     /\ chat.proto
     /\ chat.turn >= 1
     /\ chat.status # "RateLimitExceeded")
    => LET mine == {s \in DOMAIN sessions : Data(s).device_id = "d1"}
       IN /\ Cardinality(mine) = 1
          /\ \A s \in mine :
                /\ Len(Data(s).messages) = 2 * chat.turn
                /\ \A i \in 1..Len(Data(s).messages) :
                      Data(s).messages[i].role =
                          IF i % 2 = 1 THEN "user" ELSE "assistant"

\* C28: the rate-limit counter of an identity counts its chat turns, one increment
\* for each, so that a turn is rejected only when it is the 11th or a later turn of
\* its identity in the window (max_requests = 10).
C28_OneIncrementPerTurn ==
    \A identity \in Identities :
        /\ Counted(identity) = chat.turns[identity]
        /\ (chat.status = "RateLimitExceeded" /\ ChatIdentity(chat) = identity)
                => chat.turns[identity] > rateArgs.max_requests

\* C29: a chat turn that is over and appended its user message to a session has
\* appended exactly one assistant message to that session after it.
C29_AssistantReply ==
    (/\ chat.pc = "idle"
     /\ chat.saved # 0
     /\ Live(chat.sid))
    => Cardinality({i \in 1..Len(Data(chat.sid).messages) :
                        /\ Data(chat.sid).messages[i].role = "assistant"
                        /\ Data(chat.sid).messages[i].id > chat.saved}) = 1

----------------------------------------------------------------------------
(* Cleanups of a device that keep one session, or none *)

InitCleanup ==
    /\ \E live \in SUBSET SessionIds, members \in {{}, {"s1", "s2"}, SessionIds},
          stamp \in Stamps : DeviceStore(live, members, stamp)
    /\ observe = TRUE
    /\ owned = FirstOwned
    /\ chat = IdleChat
    /\ LimiterOff

NextCleanup ==
    \/ \E keep \in {0, 1} : CleanupCall("w1", "d1", keep)
    \/ GetByDeviceStep("w1")
    \/ CleanupDelete("w1")
    \/ Tick

SpecCleanup == InitCleanup /\ [][NextCleanup]_vars

\* C31: CleanupDevice(d, keepLatest = 0) run alone on n >= 1 live indexed sessions
\* deletes all n of them and returns n.
C31_CleanupKeepNone ==
    \A w \in Workers :
        (JustRan(w, "cleanup") /\ workers[w].keep = 0) =>
            LET pre == workers[w].pre
                found == Found(pre, workers[w].did)
            IN Cardinality(found) >= 1
               => /\ DOMAIN pre \ DOMAIN sessions = found
                  /\ workers[w].count = Cardinality(found)

----------------------------------------------------------------------------
(* Cleanups and writes that read the store earlier (SpecDeviceRace, SpecConc) *)

\* C37: a step in which a cleanup deletes the record of a session leaves at least
\* keepLatest other live sessions of the device that are, at that moment, as
\* recently active as the deleted one: the deleted session is not among the
\* keepLatest most recently active, whatever was appended since the cleanup read.
C37_CleanupSparesRecent ==
    [][\A w \in Workers :
        (workers[w].pc = "cleanup_del" /\ workers'[w] # workers[w]) =>
            \A s \in DOMAIN sessions \ DOMAIN sessions' :
                Cardinality({r \in Found(sessions, workers[w].did) \ {s} :
                                sessions[r].data.last_activity >=
                                    sessions[s].data.last_activity})
                    >= workers[w].keep]_vars

----------------------------------------------------------------------------
(* An upgrade or a guest-info write racing with deletions; no time passes *)

InitStale ==
    /\ \E stamp \in {f \in Stamps : f["s3"] = 0 - 1} :
            DeviceStore({"s1", "s2"}, {"s1", "s2"}, stamp)
    /\ observe = FALSE
    /\ owned = FirstOwned
    /\ chat = IdleChat
    /\ LimiterOff

NextStale ==
    \/ UpgradeCall("w1", "s1", "u1")
    \/ UpgradeIndex("w1")
    \/ SetGuestInfoCall("w1", "s1", "g1")
    \/ Update("w1")
    \/ CleanupCall("w2", "d1", 1)
    \/ GetByDeviceStep("w2")
    \/ CleanupDelete("w2")
    \/ DeleteCall("w2", "s1", "u1")
    \/ DeleteStep("w2")

SpecStale == InitStale /\ [][NextStale]_vars

\* C33: the write that ends an UpgradeToAuthenticated or a SetGuestInfo does not
\* bring back a record that is gone (in SpecStale records do not expire: a record
\* absent at the write was deleted, by a cleanup or by delete_session, after the
\* worker read it).
C33_DeletedStaysDeleted ==
    [][\A w \in Workers :
        (/\ Updates(w)
         /\ workers[w].op \in {"upgrade", "set_guest_info"}
         /\ ~Live(workers[w].sid))
        => ~Live(workers[w].sid)']_vars

----------------------------------------------------------------------------
(* Create on an id in use (SpecSeq) *)

\* C35: a step in which Create is called with a session id that names a live
\* session leaves the record of that session in place, with its messages, its
\* owner and its guest_info.
C35_CreateKeepsHistory ==
    [][\A w \in Workers :
        (/\ workers[w].pc = "idle"
         /\ workers'[w] # workers[w]
         /\ workers'[w].op = "create"
         /\ Live(workers'[w].sid))
        => LET s == workers'[w].sid
           IN /\ s \in DOMAIN sessions'
              /\ sessions'[s].data.messages = sessions[s].data.messages
              /\ sessions'[s].data.user_id = sessions[s].data.user_id
              /\ sessions'[s].data.device_id = sessions[s].data.device_id
              /\ sessions'[s].data.guest_info = sessions[s].data.guest_info]_vars

----------------------------------------------------------------------------
(* Guest info of an authenticated session (SpecAlone) *)

\* C32: the write that ends a SetGuestInfo leaves the guest_info of a session whose
\* stored record is authenticated as it was.
C32_GuestInfoOnlyForGuests ==
    [][\A w \in Workers :
        (/\ Updates(w)
         /\ workers[w].op = "set_guest_info"
         /\ Live(workers[w].sid)
         /\ Data(workers[w].sid).is_authenticated)
        => sessions'[workers[w].sid].data.guest_info =
                Data(workers[w].sid).guest_info]_vars

----------------------------------------------------------------------------
(* Counters and their TTL (SpecRate) *)

\* C34: in every state, also while the call whose increment created a counter has
\* not set its TTL yet and other calls go on incrementing, every rate-limit
\* counter that exists carries a TTL.
C34_CountersExpire ==
    \A key \in DOMAIN counters : counters[key].ttl # NoExpiry

----------------------------------------------------------------------------
(* Chat turns on sessions that were upgraded *)

\* two sessions created by device d1 as a guest, s1 upgraded to u1, s2 to u2
InitGuard ==
    /\ sessions = [s \in {"s1", "s2"} |->
            [data |-> Upgraded(NewSession(s, None, "d1", 0 - 2),
                               IF s = "s1" THEN "u1" ELSE "u2", 0 - 1),
             ttl |-> SESSION_TTL]]
    /\ devIndex = [d \in {"d1"} |-> [members |-> {"s1", "s2"}, ttl |-> SESSION_TTL]]
    /\ usrIndex = [u \in UserIds |->
            [members |-> IF u = "u1" THEN {"s1"} ELSE {"s2"}, ttl |-> SESSION_TTL]]
    /\ now = 0
    /\ workers = [w \in Workers |-> IdleWorker]
    /\ nextMsg = 1
    /\ issued = {"s1", "s2"}
    /\ log = [s \in SessionIds |-> <<>>]
    /\ observe = FALSE
    /\ owned = FirstOwned
    /\ chat = IdleChat
    /\ LimiterOff

NextGuard ==
    \/ \E user \in {None, "u1"}, device \in {None, "d1"}, given \in {None, "s1", "s2"} :
            ChatCall(user, device, given)
    \/ ChatRateExpire
    \/ ChatCleanupTask
    \/ ChatRate2
    \/ ChatGet
    \/ \E fresh \in FreshIds : ChatCreate(fresh)
    \/ ChatCreateIndex
    \/ ChatSaveUser
    \/ ChatKafka

SpecGuard == InitGuard /\ [][NextGuard]_vars

\* the caller of the running chat turn may append to the stored session s: the
\* authenticated user it belongs to, or, while it is guest-owned, a guest
\* presenting its device
MayAppend(s) ==
    \/ chat.user # None /\ Data(s).user_id = chat.user
    \/ /\ chat.user = None
       /\ ~Data(s).is_authenticated
       /\ Data(s).device_id = chat.device

\* C36: a chat turn within the rate limit that presents the id of a live session
\* its caller may not append to (an upgraded session presented by a guest with
\* the session's device, or by another user) ends rejected by the ownership
\* check; and a chat turn appends to a session that exists only for a caller who
\* may append to it.
C36_OwnershipCheck ==
    /\ []((/\ chat.pc = "idle"
           /\ chat.status \notin {"none", "BadRequest", "RateLimitExceeded"}
           /\ Truthy(chat.given)
           /\ Live(chat.given)
           /\ ~MayAppend(chat.given))
          => chat.status = "Forbidden")
    /\ [][(/\ chat.pc = "save_user"
           /\ chat' # chat
           /\ Live(chat.sid)
           /\ sessions'[chat.sid] # sessions[chat.sid])
          => MayAppend(chat.sid)]_vars

====
